---- MODULE Spec2Model ----
(***************************************************************************)
(* A model of ago (src/main.go): a wrapper around the go command that      *)
(* rewrites package aliases in the arguments of "get" and "install".       *)
(*                                                                         *)
(* Go strings are modelled as sequences of one-character strings, so that  *)
(* prefixes, indices and slices are computed as the code computes them.    *)
(* Go indices are 0-based; the string helpers below take and return        *)
(* 0-based indices, and convert at the point where a sequence is indexed.  *)
(*                                                                         *)
(* Four specifications share the module:                                   *)
(*   SpecResolve  the per-argument rewrite of main (lines 86-146), applied *)
(*                to a bounded set of mappings and tokens;                 *)
(*   Spec         whole invocations of main run one after another against  *)
(*                the persisted aliases file, starting with no file;       *)
(*   SpecInvoke   one invocation of main, over every mapping earlier       *)
(*                invocations can have persisted;                          *)
(*   SpecRace     two alias-management invocations whose file operations   *)
(*                interleave.                                              *)
(***************************************************************************)
EXTENDS Integers, Sequences, FiniteSets, TLC

VARIABLES
    aliases,    \* SpecResolve: the map returned by loadAliases
    order,      \* SpecResolve: the order in which "range aliases" yields keys
    arg,        \* SpecResolve: the argument token args[i]
    found,      \* SpecResolve: the locals alias and pkg after the loop of line 91
    out,        \* SpecResolve: outcome of rewriting arg
    again,      \* SpecResolve: outcome of rewriting out.val once more
    file,       \* the aliases file in the configuration directory
    osArgs,     \* Spec: os.Args of the latest invocation
    loaded,     \* Spec: what loadAliases returned to the latest invocation
    exit,       \* Spec: exit status of the latest invocation
    stdout,     \* Spec: what the latest invocation printed
    stderr,     \* Spec: the diagnostic of the latest invocation
    forwarded,  \* Spec: the arguments given to exec.Command("go", ...)
    lastOp,     \* Spec: per alias, the latest successful define or rm
    failed,     \* Spec: whether some alias invocation has failed
    pc,         \* SpecRace: where each invocation is
    mem,        \* SpecRace: the local map aliases of each invocation
    procArgs,   \* SpecRace: os.Args of each invocation
    base,       \* SpecRace: the mapping persisted before the two invocations
    earlySave   \* SpecRace: whether a save began before both loads were over

varsResolve == <<aliases, order, arg, found, out, again>>
varsSeq == <<osArgs, loaded, exit, stdout, stderr, forwarded, lastOp, failed>>
varsRace == <<pc, mem, procArgs, base, earlySave>>
vars == <<varsResolve, file, varsSeq, varsRace>>

(***************************************************************************)
(* Bounds of the model.                                                    *)
(***************************************************************************)
\* Longest token enumerated exhaustively over Alphabet.
MaxLen == 4
\* Most arguments after the sub-command of a forwarded invocation.
MaxArgs == 2

(***************************************************************************)
(* Strings.                                                                *)
(***************************************************************************)
Digits == {"0", "1", "2", "3", "4", "5", "6", "7", "8", "9"}

\* s[i:j] of Go, 0-based, i <= j <= len(s).
Slice(s, i, j) == SubSeq(s, i + 1, j)

\* strings.HasPrefix
HasPrefix(s, prefix) ==
    /\ Len(s) >= Len(prefix)
    /\ Slice(s, 0, Len(prefix)) = prefix

\* strings.TrimPrefix
TrimPrefix(s, prefix) ==
    IF HasPrefix(s, prefix) THEN Slice(s, Len(prefix), Len(s)) ELSE s

\* The 0-based indices at which substr occurs in s.
Occurrences(s, substr) ==
    {i \in 0..(Len(s) - Len(substr)) : Slice(s, i, i + Len(substr)) = substr}

\* strings.Index: first occurrence, or -1.
Index(s, substr) ==
    LET occ == Occurrences(s, substr)
    IN  IF occ = {} THEN -1 ELSE CHOOSE i \in occ : \A j \in occ : i <= j

\* strings.LastIndex: last occurrence, or -1.
LastIndex(s, substr) ==
    LET occ == Occurrences(s, substr)
    IN  IF occ = {} THEN -1 ELSE CHOOSE i \in occ : \A j \in occ : j <= i

\* strings.SplitN(s, sep, n) for n > 0 and a non-empty sep: at most n
\* substrings, the last one being the unsplit remainder.
RECURSIVE SplitN(_, _, _)
SplitN(s, sep, n) ==
    LET i == Index(s, sep)
    IN  IF n = 1 \/ i = -1
        THEN <<s>>
        ELSE <<Slice(s, 0, i)>> \o SplitN(Slice(s, i + Len(sep), Len(s)), sep, n - 1)

\* Decimal digits of the largest magnitudes a 64-bit Go int holds:
\* 9223372036854775807 and, for a negative number, 9223372036854775808.
MaxIntDigits(neg) ==
    <<"9","2","2","3","3","7","2","0","3","6","8","5","4","7","7","5","8","0">>
        \o (IF neg THEN <<"8">> ELSE <<"7">>)

DigitVal(c) == CHOOSE n \in 0..9 : <<"0","1","2","3","4","5","6","7","8","9">>[n + 1] = c

RECURSIVE TrimZeros(_)
TrimZeros(ds) ==
    IF ds # <<>> /\ Head(ds) = "0" THEN TrimZeros(Tail(ds)) ELSE ds

\* ds <= limit for digit strings of equal length.
RECURSIVE DigitsLeq(_, _)
DigitsLeq(ds, limit) ==
    IF ds = <<>> THEN TRUE
    ELSE IF DigitVal(Head(ds)) # DigitVal(Head(limit))
         THEN DigitVal(Head(ds)) < DigitVal(Head(limit))
         ELSE DigitsLeq(Tail(ds), Tail(limit))

\* Whether strconv.Atoi(s) returns a nil error: an optional sign, then one or
\* more decimal digits, whose value fits in an int (64 bits).
AtoiOk(s) ==
    LET neg  == s # <<>> /\ Head(s) = "-"
        body == IF s # <<>> /\ Head(s) \in {"+", "-"} THEN Tail(s) ELSE s
        sig  == TrimZeros(body)
    IN  /\ body # <<>>
        /\ \A i \in 1..Len(body) : body[i] \in Digits
        /\ \/ Len(sig) < Len(MaxIntDigits(neg))
           \/ Len(sig) = Len(MaxIntDigits(neg)) /\ DigitsLeq(sig, MaxIntDigits(neg))

(***************************************************************************)
(* The rewrite of one argument of "get"/"install" (main, lines 86-146).    *)
(***************************************************************************)
NoMatch == [alias |-> <<>>, pkg |-> <<>>]

\* A variant of MatchStep that forgets the length comparison of line 92.
MatchStepAnyLength(a, p, token, cur) ==
    IF HasPrefix(token, a) THEN [alias |-> a, pkg |-> p] ELSE cur

\* A variant of MatchStep that forgets the prefix test of line 92.
MatchStepAnyAlias(a, p, token, cur) ==
    IF Len(a) > Len(cur.alias) THEN [alias |-> a, pkg |-> p] ELSE cur

\* One iteration of "for a, p := range aliases" (lines 91-96): cur holds the
\* locals alias and pkg.
MatchStep(a, p, token, cur) ==
    IF HasPrefix(token, a) /\ Len(a) > Len(cur.alias)
    THEN [alias |-> a, pkg |-> p]
    ELSE cur

\* The loop of lines 89-96 over the keys in the order the map yields them.
RECURSIVE MatchLoop(_, _, _, _, _)
MatchLoop(m, keys, token, i, cur) ==
    IF i > Len(keys)
    THEN cur
    ELSE MatchLoop(m, keys, token, i + 1, MatchStep(keys[i], m[keys[i]], token, cur))

LongestMatch(m, keys, token) == MatchLoop(m, keys, token, 1, NoMatch)

Panicked == [st |-> "panic", val |-> <<>>]
Returned(s) == [st |-> "ok", val |-> s]

\* Lines 101-146 for a token matched by alias with target pkg0. The index
\* expression split[1][0] of line 114 panics (index out of range) when the
\* second part of the split is empty.
Rewrite(alias, pkg0, token) ==
    LET idx      == LastIndex(token, <<"@">>)
        version  == IF idx # -1 THEN Slice(token, idx, Len(token)) ELSE <<>>
        work     == IF idx # -1 THEN Slice(token, 0, idx) ELSE token
        pkgPath0 == TrimPrefix(work, alias)
        split    == SplitN(pkgPath0, <<"/">>, 3)
    IN  IF Len(split) > 1 /\ split[2] = <<>>
        THEN Panicked
        ELSE
          LET isMajor == /\ Len(split) > 1
                         /\ split[2][1] = "v"
                         /\ AtoiOk(Slice(split[2], 1, Len(split[2])))
              major0  == IF isMajor THEN <<"/">> \o split[2] ELSE <<>>
              pkgPath == IF isMajor
                         THEN IF Len(split) > 2 THEN <<"/">> \o split[3] ELSE <<>>
                         ELSE pkgPath0
              pidx    == LastIndex(pkg0, <<"/", "v">>)
              pkg     == IF /\ major0 # <<>>
                            /\ pidx # -1
                            /\ AtoiOk(Slice(pkg0, pidx + 2, Len(pkg0)))
                         THEN Slice(pkg0, 0, pidx)
                         ELSE pkg0
              major   == IF /\ major0 # <<>>
                            /\ Len(major0) = 3
                            /\ (major0[3] = "0" \/ major0[3] = "1")
                         THEN <<>>
                         ELSE major0
          IN  Returned(pkg \o major \o pkgPath \o version)

\* A variant of ResolveArg without the "alias == ''" test of lines 97-99.
ResolveArgNoSkip(m, keys, token) ==
    LET match == LongestMatch(m, keys, token)
    IN  Rewrite(match.alias, match.pkg, token)

\* The body of the loop of line 85 for one argument: the new value of
\* args[i], or a panic.
ResolveArg(m, keys, token) ==
    LET match == LongestMatch(m, keys, token)
    IN  IF match.alias = <<>>
        THEN Returned(token)
        ELSE Rewrite(match.alias, match.pkg, token)

(***************************************************************************)
(* Inputs of SpecResolve.                                                  *)
(***************************************************************************)
Alphabet == {"f", "/", "v", "2", "@"}

RECURSIVE StringsOfLen(_)
StringsOfLen(n) ==
    IF n = 0 THEN {<<>>}
    ELSE {Append(s, c) : s \in StringsOfLen(n - 1), c \in Alphabet}

Huge == <<"9","9","9","9","9","9","9","9","9","9","9","9","9","9","9","9","9","9","9","9">>

\* Tokens beyond the exhaustive ones: the scenarios of the documentation, the
\* characters '0', '1', '3', '+' and a major version too large for an int.
ExtraTokens ==
    { <<"f","/","v","3","/","f","f">>,
      <<"f","/","v","1","/","f","f">>,
      <<"f","/","v","0">>,
      <<"f","/","v","1","@","v","1">>,
      <<"f","f","/","v","1","0","/","f","@","2">>,
      <<"f","/","v","0","2","/","f">>,
      <<"f","/","v","+","3">>,
      <<"/","v","1","/","f">>,
      <<"f","/","v">> \o Huge,
      <<"f","/","v">> \o Huge \o <<"/","f","@","2">> }

Tokens == UNION {StringsOfLen(n) : n \in 0..MaxLen} \cup ExtraTokens

AliasKeys == {<<>>, <<"f">>, <<"f","f">>}

Targets ==
    { <<"g","/","v","2">>,
      <<"f","f">>,
      <<"g","/","v">> \o Huge }

\* map[string]string values: functions from a set of keys to targets.
Mappings == UNION {[K -> Targets] : K \in SUBSET AliasKeys}

\* The orders in which ranging over a map with key set K can yield its keys.
Orders(K) ==
    {s \in [1..Cardinality(K) -> K] : \A i, j \in 1..Cardinality(K) : s[i] = s[j] => i = j}

NotRun == [st |-> "none", val |-> <<>>]

(***************************************************************************)
(* The aliases file (loadAliases and storeAliases, lines 218-253).         *)
(*                                                                         *)
(* A file is absent, torn (zero bytes, or the part of a document a failed  *)
(* write left), or holds the text of a JSON object: its members in the     *)
(* order they are written, followed by extra bytes that an earlier, longer *)
(* write left behind.                                                      *)
(***************************************************************************)
Absent == [kind |-> "absent", members |-> <<>>, extra |-> 0]
Torn == [kind |-> "torn", members |-> <<>>, extra |-> 0]
Object(members, extra) == [kind |-> "object", members |-> members, extra |-> extra]

\* The characters of the model in the order of their byte values.
Ascii ==
    <<"+", "-", "/", "0", "1", "2", "3", "4", "5", "6", "7", "8", "9", "@",
      "a", "b", "d", "e", "f", "g", "h", "i", "l", "m", "o", "p", "r", "s",
      "t", "u", "v", "x", "y">>

Byte(c) == CHOOSE n \in 1..Len(Ascii) : Ascii[n] = c

\* s < t for Go strings: bytewise lexicographic order.
RECURSIVE StringLess(_, _)
StringLess(s, t) ==
    IF t = <<>> THEN FALSE
    ELSE IF s = <<>> THEN TRUE
    ELSE IF Head(s) # Head(t) THEN Byte(Head(s)) < Byte(Head(t))
    ELSE StringLess(Tail(s), Tail(t))

\* The keys of K in increasing order.
RECURSIVE SortedKeys(_)
SortedKeys(K) ==
    IF K = {} THEN <<>>
    ELSE LET least == CHOOSE k \in K : \A o \in K \ {k} : StringLess(k, o)
         IN  <<least>> \o SortedKeys(K \ {least})

\* The members encoding/json writes for a map: one per key, keys sorted.
Members(m) ==
    LET keys == SortedKeys(DOMAIN m)
    IN  [i \in 1..Len(keys) |-> <<keys[i], m[keys[i]]>>]

\* The number of bytes of the indented text of line 248-249: "{}\n" for no
\* member, else "{\n", each member as two spaces, the quoted key, ": " and
\* the quoted value, ",\n" between members, and "\n}\n". No character of
\* the model needs a JSON escape.
RECURSIVE MembersLen(_)
MembersLen(members) ==
    IF members = <<>> THEN 0
    ELSE Len(Head(members)[1]) + Len(Head(members)[2]) + 8 + MembersLen(Tail(members))

EncodedLen(members) ==
    IF members = <<>> THEN 3
    ELSE 2 + MembersLen(members) + 2 * (Len(members) - 1) + 3

FileLen(f) == IF f.kind = "object" THEN EncodedLen(f.members) + f.extra ELSE 0

\* The map json decodes from the members of an object: a later member
\* replaces an earlier one with the same key.
RECURSIVE DecodeMembers(_, _)
DecodeMembers(members, m) ==
    IF members = <<>> THEN m
    ELSE LET k == Head(members)[1]
             v == Head(members)[2]
         IN  DecodeMembers(Tail(members),
                           [x \in DOMAIN m \cup {k} |-> IF x = k THEN v ELSE m[x]])

EmptyMap == [x \in {} |-> <<>>]

\* loadAliases (lines 220-235): io = "fail" is an open error other than "not
\* exist". Decode reads the first JSON value and ignores what follows it.
loadAliases(f, io) ==
    IF f.kind = "absent" THEN [err |-> "", map |-> EmptyMap]
    ELSE IF io = "fail" THEN [err |-> "open aliases file", map |-> EmptyMap]
    ELSE IF f.kind = "torn" THEN [err |-> "decode aliases file", map |-> EmptyMap]
    ELSE [err |-> "", map |-> DecodeMembers(f.members, EmptyMap)]

\* os.Create (line 241): the file exists and is truncated to zero bytes.
Created(f) == Torn

\* enc.Encode (lines 247-249) by the handle os.Create returned: one write at
\* offset 0, over whatever the file holds by then.
Written(f, m) ==
    LET n == EncodedLen(Members(m))
    IN  Object(Members(m), IF FileLen(f) > n THEN FileLen(f) - n ELSE 0)

\* storeAliases (lines 237-253) run without interruption. io = "nocreate"
\* is a failure of MkdirAll or Create, io = "nowrite" a failure of Encode.
storeAliases(f, m, io) ==
    IF io = "nocreate" THEN [err |-> "create", file |-> f]
    ELSE IF io = "nowrite" THEN [err |-> "encode aliases file", file |-> Created(f)]
    ELSE [err |-> "", file |-> Written(Created(f), m)]

\* A variant of AliasDelete that deletes nothing.
AliasDeleteNothing(m, a) == m

\* delete(aliases, a) (line 183).
AliasDelete(m, a) == [x \in DOMAIN m \ {a} |-> m[x]]

\* A variant of AliasSet that stores the alias itself as the target.
AliasSetSelf(m, a, t) == [x \in DOMAIN m \cup {a} |-> IF x = a THEN a ELSE m[x]]

\* aliases[a] = t (line 193).
AliasSet(m, a, t) == [x \in DOMAIN m \cup {a} |-> IF x = a THEN t ELSE m[x]]

(***************************************************************************)
(* main (lines 65-216): one invocation, from os.Args to exit.              *)
(***************************************************************************)
AGO     == <<"a","g","o">>
GET     == <<"g","e","t">>
INSTALL == <<"i","n","s","t","a","l","l">>
ALIAS   == <<"a","l","i","a","s">>
A       == <<"a">>
HELP    == <<"h","e","l","p">>
LIST    == <<"l","i","s","t">>
LS      == <<"l","s">>
L       == <<"l">>
RM      == <<"r","m">>
BUILD   == <<"b","u","i","l","d">>

\* The body of the loop of lines 85-147 from position i on: each argument is
\* replaced in place; keys[i] is the order in which the map yields its keys
\* while args[i] is rewritten. A panic ends the program.
RECURSIVE RewriteLoop(_, _, _, _)
RewriteLoop(m, args, i, keys) ==
    IF i > Len(args)
    THEN Returned(args)
    ELSE LET r == ResolveArg(m, keys[i], args[i])
         IN  IF r.st = "panic"
             THEN Panicked
             ELSE RewriteLoop(m, [args EXCEPT ![i] = r.val], i + 1, keys)

\* A variant of RewriteArgs whose loop stops one argument early.
RewriteArgsButLast(m, args, keys) ==
    IF Len(args) < 3
    THEN Returned(args)
    ELSE LET r == RewriteLoop(m, SubSeq(args, 1, Len(args) - 1), 3, keys)
         IN  IF r.st = "panic"
             THEN Panicked
             ELSE Returned(Append(r.val, args[Len(args)]))

\* "for i := 2; i < len(args); i++" (line 85): position 3 here is args[2].
RewriteArgs(m, args, keys) == RewriteLoop(m, args, 3, keys)

\* What cmd.Run can come to (lines 205-215): go ran and exited with a
\* status, or could not be started.
ChildOutcomes ==
    { [started |-> TRUE, status |-> 0],
      [started |-> TRUE, status |-> 3],
      [started |-> FALSE, status |-> 0] }

NoOutput == [text |-> "", args |-> <<>>]
Printed(text, args) == [text |-> text, args |-> args]

\* The state an invocation leaves that stores nothing.
Ends(args, ld, code, printed, diagnostic, fwd) ==
    /\ osArgs' = args
    /\ loaded' = ld
    /\ exit' = code
    /\ stdout' = printed
    /\ stderr' = diagnostic
    /\ forwarded' = fwd
    /\ failed' = (failed \/ (code # 0 /\ Len(args) >= 2 /\ args[2] \in {ALIAS, A}))
    /\ UNCHANGED <<varsResolve, varsRace>>

\* Lines 203-215: print the go command line, run it, exit as it exits.
Exec(args, rewritten, ld, child) ==
    LET fwd == Slice(rewritten, 1, Len(rewritten))
    IN  IF child.started
        THEN Ends(args, ld, child.status, Printed("> go", fwd), "", fwd)
        ELSE Ends(args, ld, 1, Printed("> go", fwd), "error: exec", fwd)

\* Lines 66-69.
Usage(args) ==
    /\ Len(args) < 2
    /\ Ends(args, EmptyMap, 0, Printed("agoUsage", <<>>), "", <<>>)
    /\ UNCHANGED <<file, lastOp>>

\* Lines 71-74: loadAliases fails, in any invocation with a sub-command.
LoadFails(args, io) ==
    /\ Len(args) >= 2
    /\ loadAliases(file, io).err # ""
    /\ Ends(args, EmptyMap, 1, NoOutput, loadAliases(file, io).err, <<>>)
    /\ UNCHANGED <<file, lastOp>>

\* The map of an invocation that got past line 74.
Loaded(args) ==
    /\ Len(args) >= 2
    /\ loadAliases(file, "ok").err = ""

Map == loadAliases(file, "ok").map

\* Lines 80-82.
Help(args) ==
    /\ Loaded(args)
    /\ args[2] = HELP
    /\ Ends(args, Map, 0, Printed("agoUsage", <<>>), "", <<>>)
    /\ UNCHANGED <<file, lastOp>>

\* Lines 83-148, then 203-215.
GetInstall(args, keys, child) ==
    /\ Loaded(args)
    /\ args[2] \in {GET, INSTALL}
    /\ LET r == RewriteArgs(Map, args, keys)
       IN  IF r.st = "panic"
           THEN Ends(args, Map, 2, NoOutput, "panic: index out of range", <<>>)
           ELSE Exec(args, r.val, Map, child)
    /\ UNCHANGED <<file, lastOp>>

\* Lines 150-153.
AliasUsage(args) ==
    /\ Loaded(args)
    /\ args[2] \in {ALIAS, A}
    /\ Len(args) < 3
    /\ Ends(args, Map, 0, Printed("aliasUsage", <<>>), "", <<>>)
    /\ UNCHANGED <<file, lastOp>>

\* Lines 155-157.
AliasHelp(args) ==
    /\ Loaded(args)
    /\ args[2] \in {ALIAS, A}
    /\ Len(args) >= 3
    /\ args[3] = HELP
    /\ Ends(args, Map, 0, Printed("aliasUsage", <<>>), "", <<>>)
    /\ UNCHANGED <<file, lastOp>>

\* Lines 158-178: the rows sorted by alias.
AliasList(args) ==
    /\ Loaded(args)
    /\ args[2] \in {ALIAS, A}
    /\ Len(args) >= 3
    /\ args[3] \in {LIST, LS, L}
    /\ Ends(args, Map, 0, Printed("table", Members(Map)), "", <<>>)
    /\ UNCHANGED <<file, lastOp>>

\* The record of a successful define or rm of alias a.
Noted(a, op) == [x \in DOMAIN lastOp \cup {a} |-> IF x = a THEN op ELSE lastOp[x]]

\* Lines 179-188.
AliasRm(args, io) ==
    /\ Loaded(args)
    /\ args[2] \in {ALIAS, A}
    /\ Len(args) >= 3
    /\ args[3] = RM
    /\ IF Len(args) < 4
       THEN /\ Ends(args, Map, 1, NoOutput, "error: not enough arguments", <<>>)
            /\ UNCHANGED <<file, lastOp>>
       ELSE LET st == storeAliases(file, AliasDelete(Map, args[4]), io)
            IN  /\ file' = st.file
                /\ IF st.err # ""
                   THEN /\ Ends(args, Map, 1, NoOutput, st.err, <<>>)
                        /\ UNCHANGED lastOp
                   ELSE /\ Ends(args, Map, 0, Printed("removed alias", <<args[4]>>), "", <<>>)
                        /\ lastOp' = Noted(args[4], [op |-> "rm", target |-> <<>>])

\* Lines 189-199.
AliasDefine(args, io) ==
    /\ Loaded(args)
    /\ args[2] \in {ALIAS, A}
    /\ Len(args) >= 3
    /\ args[3] \notin {HELP, LIST, LS, L, RM}
    /\ IF Len(args) < 4
       THEN /\ Ends(args, Map, 1, NoOutput, "error: not enough arguments", <<>>)
            /\ UNCHANGED <<file, lastOp>>
       ELSE LET st == storeAliases(file, AliasSet(Map, args[3], args[4]), io)
            IN  /\ file' = st.file
                /\ IF st.err # ""
                   THEN /\ Ends(args, Map, 1, NoOutput, st.err, <<>>)
                        /\ UNCHANGED lastOp
                   ELSE /\ Ends(args, Map, 0, Printed("aliased", <<args[3], args[4]>>), "", <<>>)
                        /\ lastOp' = Noted(args[3], [op |-> "define", target |-> args[4]])

\* Any other sub-command: nothing in the switch of line 79 applies, lines
\* 203-215 run with the arguments as given.
Forward(args, child) ==
    /\ Loaded(args)
    /\ args[2] \notin {HELP, GET, INSTALL, ALIAS, A}
    /\ Exec(args, args, Map, child)
    /\ UNCHANGED <<file, lastOp>>

(***************************************************************************)
(* Spec: invocations run one after another.                                *)
(***************************************************************************)
Names == {<<"g">>, <<"f">>}

DefTargets == {<<"x","/","v","2">>, <<"g","g">>}

SubCommands == {HELP, LS, RM}

\* Arguments given to get, install and the sub-commands ago does not know.
GoTokens ==
    { <<"g">>,
      <<"f","/","v","3","@","1">>,
      <<"f","/">> }

\* The lists of exactly n tokens.
RECURSIVE TokenLists(_)
TokenLists(n) ==
    IF n = 0 THEN {<<>>}
    ELSE {Append(l, t) : l \in TokenLists(n - 1), t \in GoTokens}

\* Invocations of "ago alias": no sub-command, a sub-command or a name
\* alone, rm of a name, and the definition of a name.
AliasArgs ==
    UNION { {<<AGO, c>>}
            \cup {<<AGO, c, x>> : x \in SubCommands \cup Names}
            \cup {<<AGO, c, RM, y>> : y \in Names \cup {<<"x">>}}
            \cup {<<AGO, c, x, y>> : x \in Names, y \in DefTargets}
          : c \in {ALIAS, A} }

\* Invocations of get, install and build with at most n arguments, and help.
GoArgs(n) ==
    {<<AGO, HELP>>}
    \cup {<<AGO, c>> \o l : c \in {GET, INSTALL, BUILD},
                            l \in UNION {TokenLists(k) : k \in 0..n}}

ArgLists == {<<AGO>>} \cup AliasArgs \cup GoArgs(1)

IdleResolve ==
    /\ aliases = EmptyMap
    /\ order = <<>>
    /\ arg = <<>>
    /\ found = NoMatch
    /\ out = NotRun
    /\ again = NotRun

IdleSeq ==
    /\ osArgs = <<>>
    /\ loaded = EmptyMap
    /\ exit = 0
    /\ stdout = NoOutput
    /\ stderr = ""
    /\ forwarded = <<>>
    /\ lastOp = EmptyMap
    /\ failed = FALSE

IdleRace ==
    /\ pc = <<>>
    /\ mem = <<>>
    /\ procArgs = <<>>
    /\ base = EmptyMap
    /\ earlySave = FALSE

Init ==
    /\ file = Absent
    /\ IdleSeq
    /\ IdleResolve
    /\ IdleRace

\* One invocation of main with the given os.Args.
Invoke(args) ==
    \/ Usage(args)
    \/ \E io \in {"ok", "fail"} : LoadFails(args, io)
    \/ Help(args)
    \/ \E keys \in [3..Len(args) -> Orders(DOMAIN Map)], child \in ChildOutcomes :
           GetInstall(args, keys, child)
    \/ AliasUsage(args)
    \/ AliasHelp(args)
    \/ AliasList(args)
    \/ \E io \in {"ok", "nocreate", "nowrite"} : AliasRm(args, io)
    \/ \E io \in {"ok", "nocreate", "nowrite"} : AliasDefine(args, io)
    \/ \E child \in ChildOutcomes : Forward(args, child)

Next == \E args \in ArgLists : Invoke(args)

Spec == Init /\ [][Next]_vars

(***************************************************************************)
(* SpecInvoke: one invocation, whatever earlier invocations persisted, and *)
(* with up to MaxArgs arguments after get, install or build.               *)
(***************************************************************************)
\* The mappings that definitions of Names can have persisted.
Persistable == UNION {[K -> DefTargets] : K \in SUBSET Names}

InitInvoke ==
    /\ file \in {Absent, Torn} \cup {Object(Members(m), 0) : m \in Persistable}
    /\ IdleSeq
    /\ IdleResolve
    /\ IdleRace

\* No invocation has run yet.
First == osArgs = <<>>

NextInvoke ==
    \E args \in {<<AGO>>} \cup AliasArgs \cup GoArgs(MaxArgs) :
        \/ First /\ Usage(args)
        \/ First /\ \E io \in {"ok", "fail"} : LoadFails(args, io)
        \/ First /\ Help(args)
        \/ First /\ \E keys \in [3..Len(args) -> Orders(DOMAIN Map)],
                        child \in ChildOutcomes : GetInstall(args, keys, child)
        \/ First /\ AliasUsage(args)
        \/ First /\ AliasHelp(args)
        \/ First /\ AliasList(args)
        \/ First /\ \E io \in {"ok", "nocreate", "nowrite"} : AliasRm(args, io)
        \/ First /\ \E io \in {"ok", "nocreate", "nowrite"} : AliasDefine(args, io)
        \/ First /\ \E child \in ChildOutcomes : Forward(args, child)

SpecInvoke == InitInvoke /\ [][NextInvoke]_vars

(***************************************************************************)
(* SpecResolve: the rewrite of one argument, over all inputs.              *)
(***************************************************************************)
InitResolve ==
    /\ aliases \in Mappings
    /\ order \in Orders(DOMAIN aliases)
    /\ arg \in Tokens
    /\ found = NoMatch
    /\ out = NotRun
    /\ again = NotRun
    /\ file = Absent
    /\ IdleSeq
    /\ IdleRace

\* args[i] is rewritten (lines 86-146).
Resolve ==
    /\ out.st = "none"
    /\ found' = LongestMatch(aliases, order, arg)
    /\ out' = ResolveArg(aliases, order, arg)
    /\ UNCHANGED <<aliases, order, arg, again, file, varsSeq, varsRace>>

\* The rewritten token is given to the rewrite again, under any order.
ResolveAgain ==
    /\ out.st = "ok"
    /\ again.st = "none"
    /\ \E keys \in Orders(DOMAIN aliases) : again' = ResolveArg(aliases, keys, out.val)
    /\ UNCHANGED <<aliases, order, arg, found, out, file, varsSeq, varsRace>>

NextResolve == Resolve \/ ResolveAgain

SpecResolve == InitResolve /\ [][NextResolve]_vars

(***************************************************************************)
(* SpecRace: two alias invocations at once. Each reads the file (line 71), *)
(* changes its own map and creates the file (lines 183/193, 238-241), and  *)
(* writes it (lines 247-249); the steps of the two interleave freely.      *)
(***************************************************************************)
Procs == {1, 2}

RaceArgs ==
    {<<AGO, ALIAS, RM, y>> : y \in Names \cup {<<"x">>}}
    \cup {<<AGO, ALIAS, x, y>> : x \in Names, y \in DefTargets}

\* Lines 183 and 193: what an alias invocation does to its map.
Mutated(m, args) ==
    IF args[3] = RM THEN AliasDelete(m, args[4]) ELSE AliasSet(m, args[3], args[4])

InitRace ==
    /\ base \in Persistable
    /\ file \in {Object(Members(base), 0)} \cup (IF base = EmptyMap THEN {Absent} ELSE {})
    /\ procArgs \in [Procs -> RaceArgs]
    /\ pc = [p \in Procs |-> "start"]
    /\ mem = [p \in Procs |-> EmptyMap]
    /\ earlySave = FALSE
    /\ IdleSeq
    /\ IdleResolve

RaceLoad(p) ==
    /\ pc[p] = "start"
    /\ LET r == loadAliases(file, "ok")
       IN  IF r.err # ""
           THEN /\ pc' = [pc EXCEPT ![p] = "fatal"]
                /\ UNCHANGED mem
           ELSE /\ pc' = [pc EXCEPT ![p] = "loaded"]
                /\ mem' = [mem EXCEPT ![p] = r.map]
    /\ UNCHANGED <<file, procArgs, base, earlySave, varsResolve, varsSeq>>

RaceCreate(p) ==
    /\ pc[p] = "loaded"
    /\ mem' = [mem EXCEPT ![p] = Mutated(mem[p], procArgs[p])]
    /\ file' = Created(file)
    /\ earlySave' = (earlySave \/ \E q \in Procs : pc[q] = "start")
    /\ pc' = [pc EXCEPT ![p] = "created"]
    /\ UNCHANGED <<procArgs, base, varsResolve, varsSeq>>

RaceWrite(p) ==
    /\ pc[p] = "created"
    /\ file' = Written(file, mem[p])
    /\ pc' = [pc EXCEPT ![p] = "done"]
    /\ UNCHANGED <<mem, procArgs, base, earlySave, varsResolve, varsSeq>>

NextRace == \E p \in Procs : RaceLoad(p) \/ RaceCreate(p) \/ RaceWrite(p)

SpecRace == InitRace /\ [][NextRace]_vars

(***************************************************************************)
(* The claims. The notions they use are stated here on their own, not by   *)
(* the operators that model the code.                                      *)
(***************************************************************************)
IsPrefixOf(p, s) == \E n \in 0..Len(s) : SubSeq(s, 1, n) = p

\* The non-empty aliases of the mapping that are a prefix of the token.
PrefixAliases == {a \in DOMAIN aliases : a # <<>> /\ IsPrefixOf(a, arg)}

\* The longest of them.
TheAlias == CHOOSE a \in PrefixAliases : \A b \in PrefixAliases : Len(b) <= Len(a)

\* The position of the last '@' of the token, or one past its end.
AtPos ==
    IF \E i \in 1..Len(arg) : arg[i] = "@"
    THEN CHOOSE i \in 1..Len(arg) : arg[i] = "@" /\ \A j \in (i + 1)..Len(arg) : arg[j] # "@"
    ELSE Len(arg) + 1

\* W: the token before its last '@'; S: the rest; R: W after the alias.
TokenW == SubSeq(arg, 1, AtPos - 1)
TokenS == SubSeq(arg, AtPos, Len(arg))
TokenR == SubSeq(TokenW, Len(TheAlias) + 1, Len(TokenW))

\* The claims about a matched token: it has been rewritten, and the alias
\* is a prefix of W.
MatchedCase ==
    /\ out.st # "none"
    /\ PrefixAliases # {}
    /\ IsPrefixOf(TheAlias, TokenW)

IsDecimal(ds) == ds # <<>> /\ \A i \in 1..Len(ds) : ds[i] \in Digits

\* Where the first segment of R ends, R beginning with '/'.
SegmentEnd ==
    IF \E i \in 2..Len(TokenR) : TokenR[i] = "/"
    THEN (CHOOSE i \in 2..Len(TokenR) :
              TokenR[i] = "/" /\ \A j \in 2..(i - 1) : TokenR[j] # "/") - 1
    ELSE Len(TokenR)

\* R begins with '/v' and a decimal number, and then ends or goes on with '/'.
HasMajorSegment ==
    /\ Len(TokenR) >= 3
    /\ TokenR[1] = "/"
    /\ TokenR[2] = "v"
    /\ IsDecimal(SubSeq(TokenR, 3, SegmentEnd))

RequestedN == SubSeq(TokenR, 3, SegmentEnd)
AfterSegment == SubSeq(TokenR, SegmentEnd + 1, Len(TokenR))

\* The value of a decimal number is 2 or more.
AtLeastTwo(ds) == TrimZeros(ds) # <<>> /\ TrimZeros(ds) # <<"1">>

\* T without its last segment, when that segment is 'v' and a decimal number.
WithoutMajor(t) ==
    IF \E i \in 1..Len(t) :
           /\ t[i] = "/"
           /\ i + 1 <= Len(t) /\ t[i + 1] = "v"
           /\ IsDecimal(SubSeq(t, i + 2, Len(t)))
    THEN LET i == CHOOSE i \in 1..Len(t) :
                      /\ t[i] = "/"
                      /\ i + 1 <= Len(t) /\ t[i + 1] = "v"
                      /\ IsDecimal(SubSeq(t, i + 2, Len(t)))
         IN  SubSeq(t, 1, i - 1)
    ELSE t

\* Whether an int of 64 bits holds the decimal number.
FitsInt(ds) == AtoiOk(ds)

\* C1: a token of which no non-empty alias of the mapping is a prefix is
\* left exactly as it is.
C1_Identity ==
    (out.st # "none" /\ PrefixAliases = {}) => out = Returned(arg)

C1_Witness ==
    /\ out = Returned(arg)
    /\ <<"f","f">> \in DOMAIN aliases
    /\ <<"f">> \notin DOMAIN aliases
    /\ arg = <<"f","/","v","2">>

\* C2: the alias the rewrite uses is the longest alias that is a prefix of
\* the token, with its own target, in whatever order the map is ranged over.
C2_LongestPrefix ==
    (out.st # "none" /\ PrefixAliases # {}) =>
        /\ found = [alias |-> TheAlias, pkg |-> aliases[TheAlias]]
        /\ out = Rewrite(TheAlias, aliases[TheAlias], arg)

C2_Witness ==
    /\ out.st = "ok"
    /\ order = <<<<"f","f">>, <<"f">>>>
    /\ aliases[<<"f">>] # aliases[<<"f","f">>]
    /\ arg = <<"f","f","@","2">>
    /\ found.alias = <<"f","f">>

\* C3: when R begins with a segment '/vN', N a decimal number of 2 or more,
\* the result is T without its own major version, then '/vN', then the path
\* after the segment, then the version suffix.
C3_MajorOverride ==
    (MatchedCase /\ HasMajorSegment /\ AtLeastTwo(RequestedN)) =>
        out = Returned(WithoutMajor(aliases[TheAlias]) \o <<"/", "v">> \o RequestedN
                       \o AfterSegment \o TokenS)

\* C3 for the numbers an int holds, in the token and in the target.
C3_MajorOverrideOfInt ==
    (/\ MatchedCase /\ HasMajorSegment /\ AtLeastTwo(RequestedN)
     /\ FitsInt(RequestedN)
     /\ aliases[TheAlias] # <<"g","/","v">> \o Huge) =>
        out = Returned(WithoutMajor(aliases[TheAlias]) \o <<"/", "v">> \o RequestedN
                       \o AfterSegment \o TokenS)

\* C4: when R begins with the segment '/v0' or '/v1', the result is T
\* without its own major version, then the path after the segment, then the
\* version suffix.
C4_NoMajorBelowTwo ==
    (MatchedCase /\ HasMajorSegment /\ RequestedN \in {<<"0">>, <<"1">>}) =>
        out = Returned(WithoutMajor(aliases[TheAlias]) \o AfterSegment \o TokenS)

\* C4 for the targets whose major version an int holds.
C4_NoMajorBelowTwoOfInt ==
    (/\ MatchedCase /\ HasMajorSegment /\ RequestedN \in {<<"0">>, <<"1">>}
     /\ aliases[TheAlias] # <<"g","/","v">> \o Huge) =>
        out = Returned(WithoutMajor(aliases[TheAlias]) \o AfterSegment \o TokenS)

\* C5, as claimed: rewriting the rewritten token again gives the same token.
C5_Idempotent ==
    again.st # "none" => again = out

\* C5, amended: rewriting the rewritten token again gives the same token
\* when no non-empty alias of the mapping is a prefix of the rewritten token.
C5_IdempotentUnlessAliased ==
    (/\ again.st # "none"
     /\ \A a \in DOMAIN aliases : a = <<>> \/ ~IsPrefixOf(a, out.val)) =>
        again = out

C5_Witness ==
    /\ again.st = "ok"
    /\ again = out
    /\ out.val # arg
    /\ \A a \in DOMAIN aliases : a = <<>> \/ ~IsPrefixOf(a, out.val)

\* C8: unless R begins with '/v', a decimal number, and then ends or goes on
\* with '/', the result is T, R and S one after the other.
C8_NoOverride ==
    (MatchedCase /\ out.st = "ok" /\ ~HasMajorSegment) =>
        out.val = aliases[TheAlias] \o TokenR \o TokenS

\* C9: the rewrite of a token always yields a token.
C9_Total ==
    out.st # "panic"

\* C6: what go is given is os.Args after the program name, as long and in
\* the same order: the sub-command as it was; after get or install each
\* argument replaced by its own rewrite, after any other sub-command each
\* argument as it was.
C6_OneToOne ==
    forwarded # <<>> =>
        /\ Len(forwarded) = Len(osArgs) - 1
        /\ forwarded[1] = osArgs[2]
        /\ \A i \in 2..Len(forwarded) :
               IF osArgs[2] \in {GET, INSTALL}
               THEN \A keys \in Orders(DOMAIN loaded) :
                        Returned(forwarded[i]) = ResolveArg(loaded, keys, osArgs[i + 1])
               ELSE forwarded[i] = osArgs[i + 1]

C6_Witness ==
    /\ osArgs = <<AGO, GET, <<"g">>, <<"f","/","v","3","@","1">>>>
    /\ DOMAIN loaded = Names
    /\ Len(forwarded) = 3
    /\ forwarded[2] # osArgs[3]
    /\ forwarded[3] # osArgs[4]

\* The mapping the file holds: none when it is absent.
Persisted == loadAliases(file, "ok").map

\* What the latest define or rm of each alias leaves: the aliases whose
\* latest operation is a define, each with the target of that define.
Expected ==
    [a \in {x \in DOMAIN lastOp : lastOp[x].op = "define"} |-> lastOp[a].target]

\* C7: while every alias invocation has succeeded, the file holds each alias
\* with the target of its latest define not followed by an rm, and no other;
\* an rm of an alias the mapping does not hold fails only on an I/O error,
\* and when it succeeds it leaves the mapping as it was and reports removal.
C7_LatestDefine ==
    /\ ~failed => (file.kind # "torn" /\ Persisted = Expected)
    /\ (/\ Len(osArgs) = 4 /\ osArgs[2] \in {ALIAS, A} /\ osArgs[3] = RM
        /\ stderr \notin {"open aliases file", "decode aliases file"}
        /\ osArgs[4] \notin DOMAIN loaded) =>
           IF exit = 0
           THEN /\ Persisted = loaded
                /\ stdout = Printed("removed alias", <<osArgs[4]>>)
           ELSE stderr \in {"create", "encode aliases file"}

C7_Witness ==
    /\ ~failed
    /\ osArgs = <<AGO, ALIAS, RM, <<"x">>>>
    /\ exit = 0
    /\ DOMAIN lastOp = {<<"g">>, <<"f">>, <<"x">>}
    /\ lastOp[<<"g">>].op = "rm"
    /\ lastOp[<<"f">>] = [op |-> "define", target |-> <<"g","g">>]
    /\ Persisted = loaded

\* What a define or rm invocation is to do to a mapping.
Effect(m, args) ==
    IF args[3] = RM
    THEN [a \in DOMAIN m \ {args[4]} |-> m[a]]
    ELSE [a \in DOMAIN m \cup {args[3]} |-> IF a = args[3] THEN args[4] ELSE m[a]]

AliasOf(args) == IF args[3] = RM THEN args[4] ELSE args[3]

\* Two invocations that change different aliases, both loading before
\* either saves, both over.
RaceCase ==
    /\ \A p \in Procs : pc[p] = "done"
    /\ ~earlySave
    /\ AliasOf(procArgs[1]) # AliasOf(procArgs[2])
    /\ \A p \in Procs : Effect(base, procArgs[p]) # base

\* C10: in that case the file holds the change of one invocation alone: the
\* other's is lost, and the mapping is not what the two changes give one
\* after the other, in either order.
C10_LostUpdate ==
    RaceCase =>
        /\ Persisted \in {Effect(base, procArgs[p]) : p \in Procs}
        /\ Persisted # Effect(Effect(base, procArgs[1]), procArgs[2])
        /\ Persisted # Effect(Effect(base, procArgs[2]), procArgs[1])

C10_Witness ==
    /\ RaceCase
    /\ procArgs[1] = <<AGO, ALIAS, <<"f">>, <<"g","g">>>>
    /\ procArgs[2] = <<AGO, ALIAS, RM, <<"g">>>>
    /\ Persisted = Effect(base, procArgs[2])
    /\ <<"f">> \notin DOMAIN Persisted
    /\ file.extra > 0

====
